---- MODULE Spec2Model ----
(***************************************************************************)
(* Model of wakenmeng/jsonrepair: JSONRepair(text) and its subparsers.     *)
(*                                                                         *)
(* Text, cursor and output buffer are modelled as the code keeps them:     *)
(* text and output are sequences of code points ([]rune), the cursor i is  *)
(* the 0-based index used by the code (text[i] in Go is text[i+1] here).   *)
(* The parser is a deterministic function of its input, so every parser    *)
(* method is an operator on the record                                     *)
(*     [text, i, output, ok, err]                                          *)
(* (the RepairText receiver plus the method's (bool, error) result).       *)
(* A Go runtime panic (index or slice out of range) is the error value     *)
(* Panic, which no caller can swallow.                                     *)
(***************************************************************************)
EXTENDS Integers, Sequences, FiniteSets, TLC

(***************************************************************************)
(* Character codes                                                         *)
(***************************************************************************)
codeBackslash == 92
codeSlash == 47
codeAsterisk == 42
codeOpeningBrace == 123
codeClosingBrace == 125
codeOpeningBracket == 91
codeClosingBracket == 93
codeOpenParenthesis == 40
codeCloseParenthesis == 41
codeSpace == 32
codeNewline == 10
codeTab == 9
codeReturn == 13
codeBackspace == 8
codeFormFeed == 12
codeDoubleQuote == 34
codePlus == 43
codeMinus == 45
codeQuote == 39
codeZero == 48
codeNine == 57
codeComma == 44
codeDot == 46
codeColon == 58
codeSemicolon == 59
codeUppercaseA == 65
codeLowercaseA == 97
codeUppercaseE == 69
codeLowercaseE == 101
codeUppercaseF == 70
codeLowercaseF == 102
codeNonBreakingSpace == 160
codeEnQuad == 8192
codeHairSpace == 8202
codeNarrowNoBreakSpace == 8239
codeMediumMathematicalSpace == 8287
codeIdeographicSpace == 12288
codeDoubleQuoteLeft == 8220
codeDoubleQuoteRight == 8221
codeQuoteLeft == 8216
codeQuoteRight == 8217
codeGraveAccent == 96
codeAcuteAccent == 180

\* CharCode's "no character" result for an index at or past the end.
NoChar == 0 - 1
\* Marks the result of an index or slice expression that panics in Go.
PanicCode == 0 - 2
PanicSeq == <<PanicCode>>

\* byte(c): Go's conversion of a rune (int32) to its low 8 bits.
ByteOf(c) == ((c % 256) + 256) % 256

(***************************************************************************)
(* Character classifier                                                    *)
(***************************************************************************)
IsHex(code) ==
    \/ (code >= codeZero /\ code <= codeNine)
    \/ (code >= codeUppercaseA /\ code <= codeUppercaseF)
    \/ (code >= codeLowercaseA /\ code <= codeLowercaseF)

IsDigit(code) == code >= codeZero /\ code <= codeNine

IsValidStringCharacter(code) == code >= 32 /\ code <= 1114111

IsDoubleQuoteLike(code) ==
    code = codeDoubleQuote \/ code = codeDoubleQuoteLeft \/ code = codeDoubleQuoteRight

IsDoubleQuote(code) == code = codeDoubleQuote

IsSingleQuoteLike(code) ==
    \/ code = codeQuote
    \/ code = codeQuoteLeft
    \/ code = codeQuoteRight
    \/ code = codeGraveAccent
    \/ code = codeAcuteAccent

isSingleQuote(code) == code = codeQuote

IsQuote(code) == IsDoubleQuoteLike(code) \/ IsSingleQuoteLike(code)

\* regexDelimiter `^[,:[\]{}()\n+]$` applied to the one-byte slice {byte(c)}.
\* A byte >= 0x80 is not valid UTF-8 on its own and matches no class.
regexDelimiter(b) ==
    b \in {codeComma, codeColon, codeOpeningBracket, codeClosingBracket,
           codeOpeningBrace, codeClosingBrace, codeOpenParenthesis,
           codeCloseParenthesis, codeNewline, codePlus}

IsDelimiter(c) == regexDelimiter(ByteOf(c)) \/ IsQuote(c)

\* regexStartOfValue `^[[{\w-]$` applied to the one-byte slice {byte(r)}.
regexStartOfValue(b) ==
    \/ b = codeOpeningBracket
    \/ b = codeOpeningBrace
    \/ b = codeMinus
    \/ (b >= codeZero /\ b <= codeNine)
    \/ (b >= codeUppercaseA /\ b <= 90)
    \/ (b >= codeLowercaseA /\ b <= 122)
    \/ b = 95

IsStartOfValue(r) == regexStartOfValue(ByteOf(r)) \/ (r # 0 /\ IsQuote(r))

IsControlCharacter(code) ==
    \/ code = codeNewline
    \/ code = codeReturn
    \/ code = codeTab
    \/ code = codeBackspace
    \/ code = codeFormFeed

IsWhitespace(code) ==
    code = codeSpace \/ code = codeNewline \/ code = codeTab \/ code = codeReturn

IsSpecialWhitespace(code) ==
    \/ code = codeNonBreakingSpace
    \/ (code >= codeEnQuad /\ code <= codeHairSpace)
    \/ code = codeNarrowNoBreakSpace
    \/ code = codeMediumMathematicalSpace
    \/ code = codeIdeographicSpace

(***************************************************************************)
(* Errors                                                                  *)
(*                                                                         *)
(* A message is the sequence of the pieces fmt.Sprintf concatenates:       *)
(* literal text as a string, an inserted string as its sequence of code    *)
(* points, an inserted number as an integer.                               *)
(***************************************************************************)
NoErr == [kind |-> "nil", Message |-> <<>>, Position |-> 0]
Panic == [kind |-> "panic", Message |-> <<>>, Position |-> 0]

NewJSONRepairError(msg) ==
    [kind |-> "JSONRepairError", Message |-> msg, Position |-> 0]

UnexpectedCharacterError == NewJSONRepairError(<<"Unexpected character">>)
ObjectKeyExpectedError == NewJSONRepairError(<<"Object key expected">>)
ColonExpectedError == NewJSONRepairError(<<"Colon expected">>)
UnexpectedEndError == NewJSONRepairError(<<"Unexpected end of json string">>)

MessageAppend(e, s) == [e EXCEPT !.Message = @ \o <<" ">> \o s]

\* At with positions counted from 1
AtOneBased(e, pos) == [e EXCEPT !.Position = pos + 1]

At(e, pos) == [e EXCEPT !.Position = pos]

\* JSONRepairError.Error(): "%s at position %d"; an error made by
\* fmt.Errorf carries its whole text in Message.
ErrorText(e) ==
    IF e.kind = "JSONRepairError"
    THEN e.Message \o <<" at position ", e.Position>>
    ELSE e.Message

ExpectDigit(numSoFar, got) ==
    LET msg == <<"Invalid number '", numSoFar, "', expecting a digit ">> IN
    IF Len(msg) > 0
    THEN NewJSONRepairError(msg \o <<"but got '", got, "'">>)
    ELSE NewJSONRepairError(msg \o <<"but reached end of input">>)

InvalidUnicodeCharacter(ch) ==
    NewJSONRepairError(<<"Invalid unicode character \"", ch, "\"">>)

\* fmt.Errorf("failed to parseConcatenatedString: %v", err)
ErrorfConcatenated(err) ==
    [kind |-> "errorString",
     Message |-> <<"failed to parseConcatenatedString: ">> \o ErrorText(err),
     Position |-> 0]

(***************************************************************************)
(* Cursor and output buffer helpers                                        *)
(***************************************************************************)
min(a, b) == IF a > b THEN b ELSE a

\* t.text[k]: the element, or PanicCode when k is out of range.
IndexText(text, k) ==
    IF k < 0 \/ k >= Len(text) THEN PanicCode ELSE text[k + 1]

CharCode(t, i) ==
    IF i >= Len(t.text) THEN NoChar ELSE IndexText(t.text, i)

\* Char(i): string(t.text[i]), or "" past the end.
Char(t, i) ==
    IF i >= Len(t.text) THEN <<>> ELSE <<IndexText(t.text, i)>>

\* t.text[a:min(b, len(t.text))]; Go panics when a is negative or above
\* the upper bound.
Slice(t, a, b) ==
    LET hi == min(b, Len(t.text)) IN
    IF a < 0 \/ a > hi THEN PanicSeq ELSE SubSeq(t.text, a + 1, hi)

\* strings.LastIndex: 0-based index of the last occurrence, -1 if none.
LastIndex(text, sub) ==
    LET n == Len(sub)
        found == {k \in 0..(Len(text) - n) : SubSeq(text, k + 1, k + n) = sub}
    IN  IF found = {} THEN 0 - 1
        ELSE CHOOSE k \in found : \A m \in found : m <= k

stripLastOccurrence(text, textToStrip, stripRemainingText) ==
    LET index == LastIndex(text, textToStrip) IN
    IF index # 0 - 1
    THEN IF stripRemainingText
         THEN SubSeq(text, 1, index)
         ELSE SubSeq(text, 1, index) \o SubSeq(text, index + 2, Len(text))
    ELSE text

\* The backward scan of InsertBeforeLastWhitespace: text[index-1] is read
\* before any test of index, so the scan reads text[-1] when it reaches 0.
RECURSIVE lastWhitespaceIndex(_, _)
lastWhitespaceIndex(text, index) ==
    IF index = 0 THEN PanicCode
    ELSE IF IsWhitespace(text[index]) THEN lastWhitespaceIndex(text, index - 1)
    ELSE index

InsertBeforeLastWhitespace(text, textToInsert) ==
    LET index == Len(text) IN
    IF index = 0 THEN PanicSeq
    ELSE IF ~IsWhitespace(text[index]) THEN text \o textToInsert
    ELSE LET idx == lastWhitespaceIndex(text, index) IN
         IF idx = PanicCode THEN PanicSeq
         ELSE SubSeq(text, 1, idx) \o textToInsert \o SubSeq(text, idx + 1, Len(text))

\* append(text[:start], text[start+count:]...)
RemoveAtIndex(text, start, count) ==
    IF start < 0 \/ start + count > Len(text) THEN PanicSeq
    ELSE SubSeq(text, 1, start) \o SubSeq(text, start + count + 1, Len(text))

\* endWithCommaOrNewlineReg `[,\n][ \t\r]*$`
RECURSIVE EndsWithCommaOrNewline(_)
EndsWithCommaOrNewline(text) ==
    IF Len(text) = 0 THEN FALSE
    ELSE LET c == text[Len(text)] IN
         IF c = codeComma \/ c = codeNewline THEN TRUE
         ELSE IF c = codeSpace \/ c = codeTab \/ c = codeReturn
              THEN EndsWithCommaOrNewline(SubSeq(text, 1, Len(text) - 1))
              ELSE FALSE

RECURSIVE nextNonWhiteSpaceCharacter(_, _)
nextNonWhiteSpaceCharacter(text, start) ==
    IF start < Len(text) /\ IsWhitespace(IndexText(text, start))
    THEN nextNonWhiteSpaceCharacter(text, start + 1)
    ELSE IF start >= Len(text) THEN NoChar
    ELSE IndexText(text, start)

\* regexNumberWithLeadingZero `^0\d`
regexNumberWithLeadingZero(numStr) ==
    Len(numStr) >= 2 /\ numStr[1] = codeZero /\ IsDigit(numStr[2])

(***************************************************************************)
(* Parser state                                                            *)
(***************************************************************************)
\* RepairText as JSONRepair constructs it.
NewRepairText(text) ==
    [text |-> text, i |-> 0, output |-> <<>>, ok |-> FALSE, err |-> NoErr]

Failed(t) == t.err.kind # "nil"

\* return b, nil
Return(t, b) == [t EXCEPT !.ok = b]

\* return false, e
Raise(t, e) == [t EXCEPT !.ok = FALSE, !.err = e]

\* t.output = buf, where computing buf may have panicked
SetOutput(t, buf) ==
    IF buf = PanicSeq THEN Raise(t, Panic) ELSE [t EXCEPT !.output = buf]

\* t.output = append(t.output, s...)
Emit(t, s) == [t EXCEPT !.output = @ \o s]

(***************************************************************************)
(* Whitespace, comments, single characters                                 *)
(***************************************************************************)
\* the loop of parseWhitespace, then its emission of the collected run
RECURSIVE parseWhitespaceLoop(_, _)
parseWhitespaceLoop(t, whitespace) ==
    IF t.i < Len(t.text) /\ (\/ IsWhitespace(CharCode(t, t.i))
                             \/ IsSpecialWhitespace(CharCode(t, t.i)))
    THEN parseWhitespaceLoop([t EXCEPT !.i = @ + 1],
             whitespace \o (IF IsWhitespace(CharCode(t, t.i))
                            THEN <<CharCode(t, t.i)>> ELSE <<codeSpace>>))
    ELSE IF Len(whitespace) > 0
    THEN Return(Emit(t, whitespace), TRUE)
    ELSE Return(t, FALSE)

parseWhitespace(t) == parseWhitespaceLoop(t, <<>>)

atEndOfBlockComment(t) ==
    CharCode(t, t.i) = codeAsterisk /\ CharCode(t, t.i + 1) = codeSlash

RECURSIVE skipBlockComment(_)
skipBlockComment(t) ==
    IF t.i < Len(t.text) /\ ~atEndOfBlockComment(t)
    THEN skipBlockComment([t EXCEPT !.i = @ + 1])
    ELSE t

RECURSIVE skipLineComment(_)
skipLineComment(t) ==
    IF t.i < Len(t.text) /\ CharCode(t, t.i) # codeNewline
    THEN skipLineComment([t EXCEPT !.i = @ + 1])
    ELSE t

parseComment(t) ==
    IF CharCode(t, t.i) = codeSlash /\ CharCode(t, t.i + 1) = codeAsterisk
    THEN Return([skipBlockComment(t) EXCEPT !.i = @ + 2], TRUE)
    ELSE IF CharCode(t, t.i) = codeSlash /\ CharCode(t, t.i + 1) = codeSlash
    THEN Return(skipLineComment(t), TRUE)
    ELSE Return(t, FALSE)

\* the for loop of parseWhitespaceAndSkipComments, entered with the result
\* c of parseComment, then the function's return of t.i > start
RECURSIVE skipCommentsLoop(_, _)
skipCommentsLoop(c, start) ==
    IF c.ok
    THEN skipCommentsLoop(parseComment(parseWhitespace(c)), start)
    ELSE Return(c, c.i > start)

\* A state that carries an error or a panic passes through: the caller
\* has returned before this call.
parseWhitespaceAndSkipComments(t) ==
    IF Failed(t) THEN t
    ELSE skipCommentsLoop(parseComment(parseWhitespace(t)), t.i)

parseCharacter(t, code) ==
    IF CharCode(t, t.i) = code /\ t.i < Len(t.text)
    THEN Return([t EXCEPT !.output = @ \o <<IndexText(t.text, t.i)>>, !.i = @ + 1], TRUE)
    ELSE Return(t, FALSE)

skipCharacter(t, code) ==
    IF CharCode(t, t.i) = code
    THEN Return([t EXCEPT !.i = @ + 1], TRUE)
    ELSE Return(t, FALSE)

skipEscapeCharacter(t) == skipCharacter(t, codeBackslash)

\* processedComma := t.parseCharacter(codeComma) followed by
\* if !processedComma { t.output = InsertBeforeLastWhitespace(t.output, ",") };
\* r is the result of parseCharacter
insertMissingComma(r) ==
    IF ~r.ok
    THEN SetOutput(r, InsertBeforeLastWhitespace(r.output, <<codeComma>>))
    ELSE r

(***************************************************************************)
(* Keywords                                                                *)
(***************************************************************************)
strTrue == <<116, 114, 117, 101>>
strFalse == <<102, 97, 108, 115, 101>>
strNull == <<110, 117, 108, 108>>
strPyTrue == <<84, 114, 117, 101>>
strPyFalse == <<70, 97, 108, 115, 101>>
strPyNone == <<78, 111, 110, 101>>
strUndefined == <<117, 110, 100, 101, 102, 105, 110, 101, 100>>

parseKeyword(t, name, value) ==
    IF Slice(t, t.i, t.i + Len(name)) = PanicSeq THEN Raise(t, Panic)
    ELSE IF Slice(t, t.i, t.i + Len(name)) = name
    THEN Return([t EXCEPT !.output = @ \o value, !.i = @ + Len(name)], TRUE)
    ELSE Return(t, FALSE)

\* the (name, value) pairs of parseKeywords, in the order of its || chain
keywordTable ==
    << <<strTrue, strTrue>>, <<strFalse, strFalse>>, <<strNull, strNull>>,
       <<strPyTrue, strTrue>>, <<strPyFalse, strFalse>>, <<strPyNone, strNull>> >>

\* the || chain of parseKeywords after its n-th parseKeyword returned r
RECURSIVE parseKeywordsFrom(_, _)
parseKeywordsFrom(r, n) ==
    IF r.ok \/ Failed(r) \/ n >= Len(keywordTable) THEN r
    ELSE parseKeywordsFrom(
             parseKeyword(r, keywordTable[n + 1][1], keywordTable[n + 1][2]), n + 1)

parseKeywords(t) ==
    parseKeywordsFrom(parseKeyword(t, keywordTable[1][1], keywordTable[1][2]), 1)

(***************************************************************************)
(* Numbers                                                                 *)
(***************************************************************************)
expectDigit(t, start) ==
    IF ~IsDigit(CharCode(t, t.i)) /\ t.i < Len(t.text)
    THEN IF Slice(t, start, t.i) = PanicSeq THEN Raise(t, Panic)
         ELSE Raise(t, At(ExpectDigit(Slice(t, start, t.i),
                                      <<IndexText(t.text, t.i)>>), t.i))
    ELSE Return(t, FALSE)

expectDigitOrRepair(t, start) ==
    IF t.i >= Len(t.text)
    THEN IF Slice(t, start, t.i) = PanicSeq THEN Raise(t, Panic)
         ELSE Return(Emit(t, Slice(t, start, t.i) \o <<codeZero>>), TRUE)
    ELSE expectDigit(t, start)

\* for IsDigit(t.CharCode(t.i)) { t.i++ }; r is the state after the step
\* before it, and passes through when parseNumber has returned there
\* (with true, or with an error)
RECURSIVE skipDigits(_)
skipDigits(r) ==
    IF Failed(r) \/ r.ok THEN r
    ELSE IF IsDigit(CharCode(r, r.i)) THEN skipDigits([r EXCEPT !.i = @ + 1])
    ELSE r

\* the optional '-' of parseNumber; ok means parseNumber returns true here
parseNumberSign(t, start) ==
    IF CharCode(t, t.i) = codeMinus
    THEN expectDigitOrRepair([t EXCEPT !.i = @ + 1], start)
    ELSE Return(t, FALSE)

\* the optional fraction of parseNumber
parseNumberFraction(t, start) ==
    IF Failed(t) \/ t.ok THEN t
    ELSE IF CharCode(t, t.i) = codeDot
    THEN skipDigits(expectDigitOrRepair([t EXCEPT !.i = @ + 1], start))
    ELSE Return(t, FALSE)

\* the optional exponent of parseNumber
parseNumberExponent(t, start) ==
    IF Failed(t) \/ t.ok THEN t
    ELSE IF CharCode(t, t.i) = codeLowercaseE \/ CharCode(t, t.i) = codeUppercaseE
    THEN IF CharCode(t, t.i + 1) = codeMinus \/ CharCode(t, t.i + 1) = codePlus
         THEN skipDigits(expectDigitOrRepair([t EXCEPT !.i = @ + 2], start))
         ELSE skipDigits(expectDigitOrRepair([t EXCEPT !.i = @ + 1], start))
    ELSE Return(t, FALSE)

\* the emission of the scanned number at the end of parseNumber
parseNumberEmit(t, start) ==
    IF Failed(t) \/ t.ok THEN t
    ELSE IF t.i > start
    THEN IF Slice(t, start, t.i) = PanicSeq THEN Raise(t, Panic)
         ELSE IF regexNumberWithLeadingZero(Slice(t, start, t.i))
         THEN Return(Emit(t, <<codeDoubleQuote>> \o Slice(t, start, t.i)
                                 \o <<codeDoubleQuote>>), TRUE)
         ELSE Return(Emit(t, Slice(t, start, t.i)), TRUE)
    ELSE Return(t, FALSE)

parseNumber(t) ==
    parseNumberEmit(
        parseNumberExponent(
            parseNumberFraction(skipDigits(parseNumberSign(t, t.i)), t.i),
            t.i),
        t.i)

(***************************************************************************)
(* json.Marshal of a Go string (encoding/json, HTML escaping on)           *)
(***************************************************************************)
hexDigit(n) == IF n < 10 THEN codeZero + n ELSE codeLowercaseA + (n - 10)

\* \u00XX, the form encoding/json uses for the characters it has no
\* two-character escape for
unicodeEscape(c) ==
    <<codeBackslash, 117, hexDigit((c \div 4096) % 16), hexDigit((c \div 256) % 16),
      hexDigit((c \div 16) % 16), hexDigit(c % 16)>>

marshalRune(c) ==
    IF c = codeDoubleQuote \/ c = codeBackslash THEN <<codeBackslash, c>>
    ELSE IF c = codeNewline THEN <<codeBackslash, 110>>
    ELSE IF c = codeReturn THEN <<codeBackslash, 114>>
    ELSE IF c = codeTab THEN <<codeBackslash, 116>>
    ELSE IF c < 32 \/ c = 60 \/ c = 62 \/ c = 38 \/ c = 8232 \/ c = 8233
    THEN unicodeEscape(c)
    ELSE <<c>>

RECURSIVE marshalBody(_)
marshalBody(s) ==
    IF Len(s) = 0 THEN <<>> ELSE marshalRune(Head(s)) \o marshalBody(Tail(s))

jsonMarshal(symbol) == <<codeDoubleQuote>> \o marshalBody(symbol) \o <<codeDoubleQuote>>

(***************************************************************************)
(* Strings                                                                 *)
(***************************************************************************)
\* keys of the escapeCharacters map
escapeCharacters == {codeDoubleQuote, codeBackslash, codeSlash, 98, 102, 110, 114, 116}

\* controlCharacters[char]; a missing key yields ""
controlCharacters(c) ==
    IF c = codeBackspace THEN <<codeBackslash, 98>>
    ELSE IF c = codeFormFeed THEN <<codeBackslash, 102>>
    ELSE IF c = codeNewline THEN <<codeBackslash, 110>>
    ELSE IF c = codeReturn THEN <<codeBackslash, 114>>
    ELSE IF c = codeTab THEN <<codeBackslash, 116>>
    ELSE <<>>

\* every opening quote closed by a straight quote only
selectStraightQuote(c) ==
    IF IsDoubleQuoteLike(c) THEN "IsDoubleQuote" ELSE "isSingleQuote"

\* the isEndQuote predicate parseString selects from its opening quote
selectEndQuote(c) ==
    IF IsDoubleQuote(c) THEN "IsDoubleQuote"
    ELSE IF isSingleQuote(c) THEN "isSingleQuote"
    ELSE IF IsSingleQuoteLike(c) THEN "IsSingleQuoteLike"
    ELSE "IsDoubleQuoteLike"

isEndQuote(sel, c) ==
    IF sel = "IsDoubleQuote" THEN IsDoubleQuote(c)
    ELSE IF sel = "isSingleQuote" THEN isSingleQuote(c)
    ELSE IF sel = "IsSingleQuoteLike" THEN IsSingleQuoteLike(c)
    ELSE IsDoubleQuoteLike(c)

isEndofString(sel, stopAtDelimiter, c) ==
    IF stopAtDelimiter THEN IsDelimiter(c) ELSE isEndQuote(sel, c)

\* the scan of up to four hex digits after \u
RECURSIVE unicodeHexCount(_, _)
unicodeHexCount(t, j) ==
    IF j < 6 /\ IsHex(CharCode(t, t.i + j)) THEN unicodeHexCount(t, j + 1) ELSE j

\* tmpOutput = append(tmpOutput, s...); t.i += n
stringAppend(t, tmpOutput, s, n) ==
    IF s = PanicSeq THEN [t |-> Raise(t, Panic), tmpOutput |-> tmpOutput]
    ELSE [t |-> [t EXCEPT !.i = @ + n], tmpOutput |-> tmpOutput \o s]

\* one character (or escape sequence) of the body of a string
parseStringChar(t, tmpOutput) ==
    IF CharCode(t, t.i) = codeBackslash
    THEN LET char == Char(t, t.i + 1) IN
         IF Len(char) = 1 /\ char[1] \in escapeCharacters
         THEN stringAppend(t, tmpOutput, Slice(t, t.i, t.i + 2), 2)
         ELSE IF char = <<117>>
         THEN LET j == unicodeHexCount(t, 2) IN
              IF j = 6
              THEN stringAppend(t, tmpOutput, Slice(t, t.i, t.i + 6), 6)
              ELSE IF t.i + j >= Len(t.text)
              THEN [t |-> [t EXCEPT !.i = Len(t.text)], tmpOutput |-> tmpOutput]
              ELSE [t |-> Raise(t, At(InvalidUnicodeCharacter(Slice(t, t.i, t.i + 6)), t.i)),
                    tmpOutput |-> tmpOutput]
         ELSE stringAppend(t, tmpOutput, char, 2)
    ELSE LET char == Char(t, t.i)
             code == CharCode(t, t.i)
         IN  IF code = codeDoubleQuote /\ CharCode(t, t.i - 1) # codeBackslash
             THEN IF CharCode(t, t.i - 1) = PanicCode
                  THEN [t |-> Raise(t, Panic), tmpOutput |-> tmpOutput]
                  ELSE stringAppend(t, tmpOutput, <<codeBackslash>> \o char, 1)
             ELSE IF IsControlCharacter(code)
             THEN stringAppend(t, tmpOutput, controlCharacters(code), 1)
             ELSE IF ~IsValidStringCharacter(code)
             THEN [t |-> Raise(t, At(InvalidUnicodeCharacter(char), t.i)),
                   tmpOutput |-> tmpOutput]
             ELSE stringAppend(t, tmpOutput, char, 1)

\* the skipEscapeCharacter call that ends an iteration of the loop of
\* parseString; r is the result of parseStringChar
parseStringSkip(r, skipEscapeChars) ==
    IF Failed(r.t) \/ ~skipEscapeChars THEN r
    ELSE [r EXCEPT !.t = skipEscapeCharacter(@)]

\* the for loop of parseString; r holds the cursor state and tmpOutput
RECURSIVE parseStringLoop(_, _, _, _)
parseStringLoop(r, sel, stopAtDelimiter, skipEscapeChars) ==
    IF Failed(r.t) THEN r
    ELSE IF r.t.i < Len(r.t.text)
            /\ ~isEndofString(sel, stopAtDelimiter, CharCode(r.t, r.t.i))
    THEN parseStringLoop(
             parseStringSkip(parseStringChar(r.t, r.tmpOutput), skipEscapeChars),
             sel, stopAtDelimiter, skipEscapeChars)
    ELSE r

(***************************************************************************)
(* The recursive-descent parser.  An operator that takes the result of the *)
(* step before it passes a state with an error or a panic through: the     *)
(* function has returned at that step.                                     *)
(***************************************************************************)
RECURSIVE parseValue(_), parseValueFrom(_, _), parseAlternative(_, _),
          parseObject(_), parseObjectLoop(_, _), parseObjectKey(_),
          parseObjectAfterKey(_), parseObjectEntry(_), parseObjectColon(_),
          parseObjectValue(_, _, _), parseObjectEnd(_),
          parseArray(_), parseArrayLoop(_, _), parseArrayItem(_), parseArrayEnd(_),
          parseString(_, _), parseStringEnd(_, _, _), parseStringConcatenated(_),
          parseConcatenatedString(_), parseConcatenatedLoop(_, _),
          parseConcatenatedPart(_), parseConcatenatedJoin(_, _),
          parseUnquotedString(_), parseUnquotedSymbol(_, _), parseFunctionCallEnd(_)

\* the deferred function of parseValue (run when err == nil), then its
\* return
parseValueReturn(t) ==
    IF Failed(t) THEN t ELSE Return(parseWhitespaceAndSkipComments(t), t.ok)

\* the n-th subparser parseValue tries
parseAlternative(t, n) ==
    CASE n = 1 -> parseObject(t)
      [] n = 2 -> parseArray(t)
      [] n = 3 -> parseString(t, FALSE)
      [] n = 4 -> parseNumber(t)
      [] n = 5 -> parseKeywords(t)
      [] n = 6 -> parseUnquotedString(t)

\* parseValue after its n-th subparser returned r
parseValueFrom(r, n) ==
    IF Failed(r) \/ r.ok \/ n = 6 THEN r
    ELSE parseValueFrom(parseAlternative(r, n + 1), n + 1)

parseValue(t) ==
    IF Failed(t) THEN t
    ELSE parseValueReturn(
             parseValueFrom(parseAlternative(parseWhitespaceAndSkipComments(t), 1), 1))

\* the key of an object entry: a string, else an unquoted string; s is
\* the result of parseString
parseObjectKey(s) ==
    IF Failed(s) \/ s.ok THEN s ELSE parseUnquotedString(s)

\* the value of an object entry; v is the result of parseValue
parseObjectValue(v, processedColon, truncatedtext) ==
    IF Failed(v) THEN v
    ELSE IF ~v.ok /\ ~(truncatedtext \/ processedColon)
    THEN Raise(v, At(ColonExpectedError, v.i))
    ELSE parseObjectLoop(IF v.ok THEN v ELSE Emit(v, strNull), FALSE)

\* the colon of an object entry; c is the result of parseCharacter(codeColon)
parseObjectColon(c) ==
    IF c.ok \/ c.i >= Len(c.text) \/ IsStartOfValue(IndexText(c.text, c.i))
    THEN parseObjectValue(
             parseValue(IF c.ok THEN c
                        ELSE SetOutput(c, InsertBeforeLastWhitespace(c.output, <<codeColon>>))),
             c.ok, c.i >= Len(c.text))
    ELSE Raise(c, At(ColonExpectedError, c.i))

\* the rest of an iteration of the loop of parseObject, and the
\* iterations after it; k is the result of parsing the key
parseObjectEntry(k) ==
    parseObjectColon(parseCharacter(parseWhitespaceAndSkipComments(k), codeColon))

\* an iteration of the loop of parseObject after its key was tried
parseObjectAfterKey(k) ==
    IF Failed(k) THEN k
    ELSE IF ~k.ok
    THEN IF \/ CharCode(k, k.i) = codeClosingBrace \/ CharCode(k, k.i) = codeOpeningBrace
            \/ CharCode(k, k.i) = codeClosingBracket \/ CharCode(k, k.i) = codeOpeningBracket
            \/ k.i >= Len(k.text) \/ k.i < 0
         THEN Return([k EXCEPT !.output = stripLastOccurrence(@, <<codeComma>>, FALSE)], TRUE)
         ELSE Raise(k, At(ObjectKeyExpectedError, k.i))
    ELSE parseObjectEntry(k)

\* the comma between two entries of an object, and the whitespace after it
parseObjectComma(t, initial) ==
    IF initial THEN t
    ELSE parseWhitespaceAndSkipComments(insertMissingComma(parseCharacter(t, codeComma)))

\* the for loop of parseObject; the result has ok = TRUE unless it failed
parseObjectLoop(t, initial) ==
    IF t.i < Len(t.text) /\ CharCode(t, t.i) # codeClosingBrace
    THEN parseObjectAfterKey(
             parseObjectKey(parseString(parseObjectComma(t, initial), FALSE)))
    ELSE Return(t, TRUE)

\* the closing brace of parseObject; l is the state the loop ended in
parseObjectEnd(l) ==
    IF Failed(l) THEN l
    ELSE IF CharCode(l, l.i) = codeClosingBrace
    THEN Return([l EXCEPT !.output = @ \o <<codeClosingBrace>>, !.i = @ + 1], TRUE)
    ELSE Return(SetOutput(l, InsertBeforeLastWhitespace(l.output, <<codeClosingBrace>>)), TRUE)

parseObject(t) ==
    IF CharCode(t, t.i) = codeOpeningBrace
    THEN parseObjectEnd(parseObjectLoop(
             parseWhitespaceAndSkipComments(
                 [t EXCEPT !.output = @ \o <<codeOpeningBrace>>, !.i = @ + 1]),
             TRUE))
    ELSE Return(t, FALSE)

\* an iteration of the loop of parseArray after its parseValue returned v
parseArrayItem(v) ==
    IF Failed(v) THEN v
    ELSE IF ~v.ok
    THEN Return([v EXCEPT !.output = stripLastOccurrence(@, <<codeComma>>, FALSE)], TRUE)
    ELSE parseArrayLoop(v, FALSE)

\* the for loop of parseArray
parseArrayLoop(t, initial) ==
    IF t.i < Len(t.text) /\ CharCode(t, t.i) # codeClosingBracket
    THEN parseArrayItem(parseValue(
             IF initial THEN t ELSE insertMissingComma(parseCharacter(t, codeComma))))
    ELSE Return(t, TRUE)

\* the closing bracket of parseArray; l is the state the loop ended in
parseArrayEnd(l) ==
    IF Failed(l) THEN l
    ELSE IF CharCode(l, l.i) = codeClosingBracket
    THEN Return([l EXCEPT !.output = @ \o <<codeClosingBracket>>, !.i = @ + 1], TRUE)
    ELSE Return(SetOutput(l, InsertBeforeLastWhitespace(l.output, <<codeClosingBracket>>)), TRUE)

parseArray(t) ==
    IF CharCode(t, t.i) = codeOpeningBracket
    THEN parseArrayEnd(parseArrayLoop(
             parseWhitespaceAndSkipComments(
                 [t EXCEPT !.output = @ \o <<codeOpeningBracket>>, !.i = @ + 1]),
             TRUE))
    ELSE Return(t, FALSE)

\* the scan of parseUnquotedString up to the next delimiter
RECURSIVE scanUnquoted(_)
scanUnquoted(t) ==
    IF t.i < Len(t.text) /\ ~IsDelimiter(IndexText(t.text, t.i))
    THEN scanUnquoted([t EXCEPT !.i = @ + 1])
    ELSE t

\* the backward trim of trailing whitespace: CharCode(t.i-1) is read before
\* t.i > 0 is tested
RECURSIVE trimUnquoted(_)
trimUnquoted(t) ==
    IF CharCode(t, t.i - 1) = PanicCode THEN Raise(t, Panic)
    ELSE IF IsWhitespace(CharCode(t, t.i - 1)) /\ t.i > 0
    THEN trimUnquoted([t EXCEPT !.i = @ - 1])
    ELSE t

\* if t.CharCode(t.i) == code { t.i++ }
skipOptional(t, code) ==
    IF CharCode(t, t.i) = code THEN [t EXCEPT !.i = @ + 1] ELSE t

\* the end of a function call such as callback(...); v is the result of
\* the parseValue of its argument
parseFunctionCallEnd(v) ==
    IF Failed(v) THEN v
    ELSE IF CharCode(v, v.i) = codeCloseParenthesis
    THEN Return(skipOptional([v EXCEPT !.i = @ + 1], codeSemicolon), TRUE)
    ELSE Return(v, TRUE)

\* the emission of an unquoted symbol; r is the state after the trim
emitUnquotedSymbol(r, start) ==
    IF Failed(r) THEN r
    ELSE IF Slice(r, start, r.i) = PanicSeq THEN Raise(r, Panic)
    ELSE IF Slice(r, start, r.i) = strUndefined
    THEN Return(skipOptional(Emit(r, strNull), codeDoubleQuote), TRUE)
    ELSE Return(skipOptional(Emit(r, jsonMarshal(Slice(r, start, r.i))),
                             codeDoubleQuote), TRUE)

\* parseUnquotedString after its scan ended in state s
parseUnquotedSymbol(s, start) ==
    IF s.i > start
    THEN IF CharCode(s, s.i) = codeOpenParenthesis
         THEN parseFunctionCallEnd(parseValue([s EXCEPT !.i = @ + 1]))
         ELSE emitUnquotedSymbol(trimUnquoted(s), start)
    ELSE Return(s, FALSE)

parseUnquotedString(t) == parseUnquotedSymbol(scanUnquoted(t), t.i)

\* the end of parseString: the error of parseConcatenatedString is
\* wrapped by fmt.Errorf; c is the result of parseConcatenatedString
parseStringConcatenated(c) ==
    IF c.err = Panic THEN c
    ELSE IF Failed(c) THEN Raise(c, ErrorfConcatenated(c.err))
    ELSE Return(c, TRUE)

\* t.output = append(t.output, tmpOutput...) and the call of
\* parseConcatenatedString; computing tmpOutput may have panicked
parseStringEmit(t, tmpOutput) ==
    IF tmpOutput = PanicSeq THEN Raise(t, Panic)
    ELSE parseStringConcatenated(parseConcatenatedString(Emit(t, tmpOutput)))

\* parseString after its loop ended in r
parseStringEnd(r, iBefore, stopAtDelimiter) ==
    IF Failed(r.t) THEN r.t
    ELSE LET hasEndQuote == IsQuote(CharCode(r.t, r.t.i))
             valid == hasEndQuote /\
                      (r.t.i + 1 >= Len(r.t.text) \/
                       IsDelimiter(nextNonWhiteSpaceCharacter(r.t.text, r.t.i + 1)))
         IN  IF ~valid /\ ~stopAtDelimiter
             THEN parseString([r.t EXCEPT !.i = iBefore], TRUE)
             ELSE parseStringEmit(
                      IF hasEndQuote THEN [r.t EXCEPT !.i = @ + 1] ELSE r.t,
                      IF hasEndQuote THEN r.tmpOutput \o <<codeDoubleQuote>>
                      ELSE InsertBeforeLastWhitespace(r.tmpOutput, <<codeDoubleQuote>>))

\* t is the cursor state at the opening quote
parseStringBody(t, stopAtDelimiter, skipEscapeChars) ==
    IF IsQuote(CharCode(t, t.i))
    THEN parseStringEnd(
             parseStringLoop([t |-> [t EXCEPT !.i = @ + 1], tmpOutput |-> <<codeDoubleQuote>>],
                             selectEndQuote(CharCode(t, t.i)), stopAtDelimiter,
                             skipEscapeChars),
             t.i, stopAtDelimiter)
    ELSE Return(t, FALSE)

parseString(t, stopAtDelimiter) ==
    IF Failed(t) THEN t
    ELSE parseStringBody(
             IF CharCode(t, t.i) = codeBackslash THEN [t EXCEPT !.i = @ + 1] ELSE t,
             stopAtDelimiter, CharCode(t, t.i) = codeBackslash)

\* an iteration of the loop of parseConcatenatedString after its
\* parseString returned parsedStr; start is len(t.output) before that call
parseConcatenatedJoin(parsedStr, start) ==
    IF Failed(parsedStr) THEN parsedStr
    ELSE parseConcatenatedLoop(
             SetOutput(parsedStr,
                 IF parsedStr.ok THEN RemoveAtIndex(parsedStr.output, start, 1)
                 ELSE InsertBeforeLastWhitespace(parsedStr.output, <<codeDoubleQuote>>)),
             TRUE)

\* x is the state after the '+', the whitespace and the removal of the
\* end quote of the string before
parseConcatenatedPart(x) == parseConcatenatedJoin(parseString(x, FALSE), Len(x.output))

\* the for loop of parseConcatenatedString
parseConcatenatedLoop(t, processed) ==
    IF Failed(t) THEN t
    ELSE IF CharCode(t, t.i) = codePlus
    THEN parseConcatenatedPart(
             [parseWhitespaceAndSkipComments([t EXCEPT !.i = @ + 1])
                 EXCEPT !.output = stripLastOccurrence(@, <<codeDoubleQuote>>, TRUE)])
    ELSE Return(t, processed)

parseConcatenatedString(t) ==
    parseConcatenatedLoop(parseWhitespaceAndSkipComments(t), FALSE)

(***************************************************************************)
(* Top-level driver                                                        *)
(***************************************************************************)
RECURSIVE parseNewlineDelimitedLoop(_, _)

\* an iteration of the loop of parseNewlineDelimitedJSON after its
\* parseValue returned v, and what follows the loop
parseNewlineDelimitedItem(v) ==
    IF Failed(v) THEN v
    ELSE IF v.ok THEN parseNewlineDelimitedLoop(v, FALSE)
    ELSE [v EXCEPT !.output = <<codeOpeningBracket, codeNewline>>
                              \o stripLastOccurrence(@, <<codeComma>>, FALSE)
                              \o <<codeNewline, codeClosingBracket>>]

\* the for loop of parseNewlineDelimitedJSON
parseNewlineDelimitedLoop(t, initial) ==
    parseNewlineDelimitedItem(parseValue(
        IF initial THEN t ELSE insertMissingComma(parseCharacter(t, codeComma))))

\* the returned state carries the method's error result in err
parseNewlineDelimitedJSON(t) == parseNewlineDelimitedLoop(t, TRUE)

\* the loop of JSONRepair over redundant closing braces and brackets
RECURSIVE skipTrailingClosers(_)
skipTrailingClosers(t) ==
    IF CharCode(t, t.i) = codeClosingBrace \/ CharCode(t, t.i) = codeClosingBracket
    THEN skipTrailingClosers(parseWhitespaceAndSkipComments([t EXCEPT !.i = @ + 1]))
    ELSE t

\* the statement t.parseNewlineDelimitedJSON() of JSONRepair, which does
\* not use the value n.err the call returns: it is kept in nd, and the
\* state goes on without an error (a panic aborts the call of JSONRepair)
discardedResult(n) ==
    IF n.err = Panic THEN [t |-> n, nd |-> NoErr]
    ELSE [t |-> [n EXCEPT !.err = NoErr], nd |-> n.err]

\* JSONRepair from its test for a further value on, up to the call of
\* parseNewlineDelimitedJSON; w is the state after the optional comma and
\* nd is NoErr when the call is not made
repairFurtherValues(w, processedComma) ==
    IF /\ w.i < Len(w.text)
       /\ IsStartOfValue(IndexText(w.text, w.i))
       /\ EndsWithCommaOrNewline(w.output)
    THEN discardedResult(parseNewlineDelimitedJSON(
             IF processedComma THEN w
             ELSE SetOutput(w, InsertBeforeLastWhitespace(w.output, <<codeComma>>))))
    ELSE IF processedComma
    THEN [t |-> [w EXCEPT !.output = stripLastOccurrence(@, <<codeComma>>, FALSE)],
          nd |-> NoErr]
    ELSE [t |-> w, nd |-> NoErr]

\* JSONRepair after its first parseValue succeeded: the optional comma;
\* c is the result of parseCharacter(codeComma)
repairSeparators(c) ==
    repairFurtherValues(IF c.ok THEN parseWhitespaceAndSkipComments(c) ELSE c, c.ok)

\* the two returns that end JSONRepair; b is the state after the loop
\* over closing braces and brackets
repairResult(b, nd) ==
    IF b.i >= Len(b.text)
    THEN [out |-> b.output, err |-> NoErr, sub |-> nd]
    ELSE [out |-> <<>>,
          err |-> At(MessageAppend(UnexpectedCharacterError,
                         <<"\"", <<IndexText(b.text, b.i)>>, "\"">>), b.i),
          sub |-> nd]

\* JSONRepair after repairSeparators yielded s
repairClosers(s) ==
    IF Failed(s.t) THEN [out |-> <<>>, err |-> s.t.err, sub |-> s.nd]
    ELSE repairResult(skipTrailingClosers(s.t), s.nd)

\* JSONRepair after its first parseValue returned v
repairRoot(v) ==
    IF Failed(v) THEN [out |-> <<>>, err |-> v.err, sub |-> v.err]
    ELSE IF ~v.ok
    THEN [out |-> <<>>, err |-> At(UnexpectedEndError, Len(v.text)), sub |-> NoErr]
    ELSE repairClosers(repairSeparators(parseCharacter(v, codeComma)))

\* One call of JSONRepair: out and err are the two results it returns (a
\* panic aborts the call: err = Panic); sub is the error a subparser
\* reported during the call, NoErr if none did.
JSONRepairCall(text) == repairRoot(parseValue(NewRepairText(text)))

\* the two results of a call
Results(r) == [out |-> r.out, err |-> r.err]

JSONRepair(text) == Results(JSONRepairCall(text))

(***************************************************************************)
(* Strict JSON (RFC 8259), the yardstick of the validity properties.       *)
(* Each recogniser takes a 1-based position and yields the position after  *)
(* what it recognised, or 0 when the text does not match there.            *)
(***************************************************************************)
jsonAt(s, p) == IF p >= 1 /\ p <= Len(s) THEN s[p] ELSE NoChar

RECURSIVE jsonWs(_, _)
jsonWs(s, p) ==
    IF jsonAt(s, p) \in {codeSpace, codeTab, codeNewline, codeReturn}
    THEN jsonWs(s, p + 1) ELSE p

RECURSIVE jsonDigits(_, _)
jsonDigits(s, p) == IF IsDigit(jsonAt(s, p)) THEN jsonDigits(s, p + 1) ELSE p

jsonNumber(s, p0) ==
    LET p1 == IF jsonAt(s, p0) = codeMinus THEN p0 + 1 ELSE p0
        p2 == IF jsonAt(s, p1) = codeZero THEN p1 + 1
              ELSE IF IsDigit(jsonAt(s, p1)) THEN jsonDigits(s, p1)
              ELSE 0
        p3 == IF p2 = 0 THEN 0
              ELSE IF jsonAt(s, p2) = codeDot
              THEN IF IsDigit(jsonAt(s, p2 + 1)) THEN jsonDigits(s, p2 + 1) ELSE 0
              ELSE p2
        p4 == IF p3 = 0 THEN 0
              ELSE IF jsonAt(s, p3) \in {codeLowercaseE, codeUppercaseE}
              THEN LET q == IF jsonAt(s, p3 + 1) \in {codePlus, codeMinus}
                            THEN p3 + 2 ELSE p3 + 1
                   IN  IF IsDigit(jsonAt(s, q)) THEN jsonDigits(s, q) ELSE 0
              ELSE p3
    IN  p4

\* the body of a string, from the position after its opening quote
RECURSIVE jsonStringBody(_, _)
jsonStringBody(s, p) ==
    LET c == jsonAt(s, p) IN
    IF c = codeDoubleQuote THEN p + 1
    ELSE IF c = codeBackslash
    THEN LET e == jsonAt(s, p + 1) IN
         IF e \in {codeDoubleQuote, codeBackslash, codeSlash, 98, 102, 110, 114, 116}
         THEN jsonStringBody(s, p + 2)
         ELSE IF e = 117 /\ \A k \in 2..5 : IsHex(jsonAt(s, p + k))
         THEN jsonStringBody(s, p + 6)
         ELSE 0
    ELSE IF c >= 32 /\ c <= 1114111 THEN jsonStringBody(s, p + 1)
    ELSE 0

jsonString(s, p) ==
    IF jsonAt(s, p) = codeDoubleQuote THEN jsonStringBody(s, p + 1) ELSE 0

jsonLiteral(s, p, name) ==
    IF p + Len(name) - 1 <= Len(s) /\ SubSeq(s, p, p + Len(name) - 1) = name
    THEN p + Len(name) ELSE 0

RECURSIVE jsonValue(_, _), jsonElements(_, _), jsonMembers(_, _)

\* ws value ws
jsonElement(s, p) ==
    LET q == jsonValue(s, jsonWs(s, p)) IN IF q = 0 THEN 0 ELSE jsonWs(s, q)

jsonValue(s, p) ==
    LET c == jsonAt(s, p) IN
    IF c = codeOpeningBrace
    THEN LET q == jsonWs(s, p + 1) IN
         IF jsonAt(s, q) = codeClosingBrace THEN q + 1 ELSE jsonMembers(s, q)
    ELSE IF c = codeOpeningBracket
    THEN LET q == jsonWs(s, p + 1) IN
         IF jsonAt(s, q) = codeClosingBracket THEN q + 1 ELSE jsonElements(s, q)
    ELSE IF c = codeDoubleQuote THEN jsonString(s, p)
    ELSE IF c = codeMinus \/ IsDigit(c) THEN jsonNumber(s, p)
    ELSE IF c = 116 THEN jsonLiteral(s, p, strTrue)
    ELSE IF c = 102 THEN jsonLiteral(s, p, strFalse)
    ELSE IF c = 110 THEN jsonLiteral(s, p, strNull)
    ELSE 0

\* element (',' element)* ']'
jsonElements(s, p) ==
    LET q == jsonElement(s, p) IN
    IF q = 0 THEN 0
    ELSE IF jsonAt(s, q) = codeComma THEN jsonElements(s, q + 1)
    ELSE IF jsonAt(s, q) = codeClosingBracket THEN q + 1
    ELSE 0

\* member (',' member)* '}'  with  member = ws string ws ':' element
jsonMembers(s, p) ==
    LET k == jsonString(s, jsonWs(s, p))
        c == IF k = 0 THEN 0 ELSE jsonWs(s, k)
        q == IF c = 0 \/ jsonAt(s, c) # codeColon THEN 0 ELSE jsonElement(s, c + 1)
    IN  IF q = 0 THEN 0
        ELSE IF jsonAt(s, q) = codeComma THEN jsonMembers(s, q + 1)
        ELSE IF jsonAt(s, q) = codeClosingBrace THEN q + 1
        ELSE 0

\* exactly one JSON value with optional surrounding whitespace
IsValidJSON(s) == jsonElement(s, 1) = Len(s) + 1

(***************************************************************************)
(* The program as a state machine: a client calls JSONRepair on a text,    *)
(* and may call it again on the text it got back.                          *)
(***************************************************************************)
VARIABLES text, pc, first, second, step

vars == <<text, pc, first, second, step>>

\* value of first and second before the call is made
NotCalled == [out |-> <<>>, err |-> NoErr, sub |-> NoErr]

\* no step of parseValue taken: n counts the alternatives tried, t is the
\* parser state before the last step and r the state it returned
NotStepped == [n |-> 0, t |-> NewRepairText(<<>>), r |-> NewRepairText(<<>>)]

\* bound on the length of the input texts
MaxLen == 4

\* all texts over the alphabet A of at most n code points
TextsOver(A, n) == UNION {[1..k -> A] : k \in 0..n}

\* the characters the texts of Spec are made of:
\* " , space ] / * 1 newline - { \ : .
Alphabet ==
    {codeDoubleQuote, codeComma, codeSpace, codeClosingBracket, codeSlash,
     codeAsterisk, 49, codeNewline, codeMinus, codeOpeningBrace, codeBackslash,
     codeColon, codeDot}

InitOn(T) ==
    /\ text \in T
    /\ pc = "start"
    /\ first = NotCalled
    /\ second = NotCalled
    /\ step = NotStepped

Init == InitOn(TextsOver(Alphabet, MaxLen))

Repair ==
    /\ pc = "start"
    /\ first' = JSONRepairCall(text)
    /\ pc' = "repaired"
    /\ UNCHANGED <<text, second, step>>

RepairAgain ==
    /\ pc = "repaired"
    /\ first.err = NoErr
    /\ second' = JSONRepairCall(first.out)
    /\ pc' = "again"
    /\ UNCHANGED <<text, first, step>>

Next == Repair \/ RepairAgain

Spec == Init /\ [][Next]_vars

(***************************************************************************)
(* Texts that provoke errors: every error site of the parser is reached,   *)
(* at the start of the text, after a comment, and inside the right-hand    *)
(* operand of a string concatenation.                                      *)
(***************************************************************************)
\* bound on the length of the texts of SpecErr after their prefix
MaxErrLen == 4

\* { " \ / - , U+0001 + u
ErrAlphabet ==
    {codeOpeningBrace, codeDoubleQuote, codeBackslash, codeSlash,
     codeMinus, codeComma, 1, codePlus, 117}

\* nothing; the comment /**/ ; the left operand ""+
ErrPrefixes ==
    { <<>>,
      <<codeSlash, codeAsterisk, codeAsterisk, codeSlash>>,
      <<codeDoubleQuote, codeDoubleQuote, codePlus>> }

ErrTexts == {p \o t : p \in ErrPrefixes, t \in TextsOver(ErrAlphabet, MaxErrLen)}

InitErr == InitOn(ErrTexts)

SpecErr == InitErr /\ [][Next]_vars

(***************************************************************************)
(* Truncated documents: every prefix of a few strictly valid documents.    *)
(***************************************************************************)
\* {"a":2.3e100,"b":"str","c":null,"d":false,"e":[1,2,3]}
DocFull ==
    << 123, 34, 97, 34, 58, 50, 46, 51, 101, 49, 48, 48, 44, 34, 98, 34,
       58, 34, 115, 116, 114, 34, 44, 34, 99, 34, 58, 110, 117, 108, 108, 44,
       34, 100, 34, 58, 102, 97, 108, 115, 101, 44, 34, 101, 34, 58, 91, 49,
       44, 50, 44, 51, 93, 125 >>

\* {"a\"b":["c\\d",-1.5e+2,true],"éx":null}
DocEscapes ==
    << 123, 34, 97, 92, 34, 98, 34, 58, 91, 34, 99, 92, 92, 100, 34, 44,
       45, 49, 46, 53, 101, 43, 50, 44, 116, 114, 117, 101, 93, 44, 34, 92,
       117, 48, 48, 101, 57, 120, 34, 58, 110, 117, 108, 108, 125 >>

\* [{"k\n":"v\/w"}, "x y" ]
DocNested ==
    << 91, 123, 34, 107, 92, 110, 34, 58, 34, 118, 92, 47, 119, 34, 125, 44,
       32, 34, 120, 32, 121, 34, 32, 93 >>

Docs == {DocFull, DocEscapes, DocNested}

Prefixes(d) == {SubSeq(d, 1, k) : k \in 0..Len(d)}

TruncTexts == UNION {Prefixes(d) : d \in Docs}

InitTrunc == InitOn(TruncTexts)

SpecTrunc == InitTrunc /\ [][Next]_vars

(***************************************************************************)
(* Unquoted symbols where a value is expected.                             *)
(***************************************************************************)
\* bound on the length of a symbol
MaxSymLen == 3

\* e E . x 5 space
SymAlphabet == {codeLowercaseE, codeUppercaseE, codeDot, 120, 53, codeSpace}

\* runs of non-delimiter characters that start with a letter or a dot
Symbols ==
    {w \in TextsOver(SymAlphabet, MaxSymLen) :
        Len(w) >= 1 /\ w[1] \in {codeLowercaseE, codeUppercaseE, codeDot, 120}}

\* where a value is expected: top level, array element, object value
SymContexts ==
    { [pre |-> <<>>, post |-> <<>>],
      [pre |-> <<codeOpeningBracket>>, post |-> <<codeClosingBracket>>],
      [pre |-> <<codeOpeningBrace, codeDoubleQuote, 107, codeDoubleQuote, codeColon>>,
       post |-> <<codeClosingBrace>>] }

SymTexts == {c.pre \o w \o c.post : c \in SymContexts, w \in Symbols}

InitSym == InitOn(SymTexts)

SpecSym == InitSym /\ [][Next]_vars

(***************************************************************************)
(* Properties                                                              *)
(***************************************************************************)
Returned(r) == r.err.kind # "panic"

Succeeded(r) == r.err = NoErr

ReturnedError(r) == r.err.kind \in {"JSONRepairError", "errorString"}

\* the documented forms of an error message
DocumentedMessage(m) ==
    \/ /\ Len(m) = 3
       /\ m[1] \in {"Object key expected", "Colon expected",
                    "Unexpected end of json string"}
       /\ m[2] = " at position "
       /\ m[3] \in Nat
    \/ /\ Len(m) = 7
       /\ m[1] = "Unexpected character"
       /\ m[2] = " " /\ m[3] = "\"" /\ Len(m[4]) = 1 /\ m[5] = "\""
       /\ m[6] = " at position "
       /\ m[7] \in Nat
    \/ /\ Len(m) = 8
       /\ m[1] = "Invalid number '"
       /\ m[3] = "', expecting a digit " /\ m[4] = "but got '" /\ m[6] = "'"
       /\ m[7] = " at position "
       /\ m[8] \in Nat
    \/ /\ Len(m) = 5
       /\ m[1] = "Invalid unicode character \""
       /\ m[3] = "\""
       /\ m[4] = " at position "
       /\ m[5] \in Nat

\* the position an error message reports: its last piece
ReportedPosition(e) == LET m == ErrorText(e) IN m[Len(m)]

\* C1: JSONRepair returns every strictly valid JSON text unchanged and
\* without an error.
ValidPassthrough ==
    (pc # "start" /\ IsValidJSON(text)) => (Succeeded(first) /\ first.out = text)

\* C2: whenever JSONRepair returns a nil error, the returned text is
\* strictly valid JSON.
OutputValidity ==
    (pc # "start" /\ Succeeded(first)) => IsValidJSON(first.out)

\* C3: when JSONRepair succeeds with output y, JSONRepair(y) succeeds and
\* returns exactly y.
Idempotence ==
    pc = "again" => (Succeeded(second) /\ second.out = first.out)

\* C4: on every prefix of a strictly valid document JSONRepair completes,
\* and returns strictly valid JSON or one of the defined errors.
TruncationTolerance ==
    (pc # "start" /\ text \in TruncTexts) =>
        /\ Returned(first)
        /\ Succeeded(first) => IsValidJSON(first.out)
        /\ ReturnedError(first) =>
               (first.err.kind = "JSONRepairError" /\ DocumentedMessage(ErrorText(first.err)))

\* C5: no step of JSONRepair indexes or slices the input or the output
\* buffer outside its bounds (no call ends in a runtime panic).
BoundsSafety == Returned(first) /\ Returned(second)

\* C6: whenever a subparser reports an error during a call, JSONRepair
\* returns that same error.
NoErrorSwallowed ==
    (pc # "start" /\ first.sub # NoErr) => first.err = first.sub

\* C7: the message of every error JSONRepair returns is exactly one of the
\* documented forms, with no added prefix.
ErrorMessageFormat ==
    (pc # "start" /\ ReturnedError(first)) => DocumentedMessage(ErrorText(first.err))

\* C8: the position reported by every error JSONRepair returns lies in
\* 0..len(input).
ErrorPositionRange ==
    (pc # "start" /\ ReturnedError(first)) =>
        ReportedPosition(first.err) \in 0..Len(text)

\* C8 witness: an error is returned for a defect that lies behind a comment
\* the cursor skipped.
ErrorBehindComment ==
    /\ pc = "repaired"
    /\ ReturnedError(first)
    /\ Len(text) > 4
    /\ SubSeq(text, 1, 4) = <<codeSlash, codeAsterisk, codeAsterisk, codeSlash>>
    /\ ReportedPosition(first.err) >= 4

\* the position after a block comment body: after the first "*/" at or
\* after p, or after the end of the text when there is none
RECURSIVE blockCommentEnd(_, _)
blockCommentEnd(s, p) ==
    IF p > Len(s) THEN p
    ELSE IF s[p] = codeAsterisk /\ jsonAt(s, p + 1) = codeSlash THEN p + 2
    ELSE blockCommentEnd(s, p + 1)

RECURSIVE lineCommentEnd(_, _)
lineCommentEnd(s, p) ==
    IF p > Len(s) \/ s[p] = codeNewline THEN p ELSE lineCommentEnd(s, p + 1)

\* the position after the leading whitespace and comments of s
RECURSIVE blankEnd(_, _)
blankEnd(s, p) ==
    IF p > Len(s) THEN p
    ELSE IF IsWhitespace(s[p]) \/ IsSpecialWhitespace(s[p]) THEN blankEnd(s, p + 1)
    ELSE IF s[p] = codeSlash /\ jsonAt(s, p + 1) = codeAsterisk
    THEN blankEnd(s, blockCommentEnd(s, p + 2))
    ELSE IF s[p] = codeSlash /\ jsonAt(s, p + 1) = codeSlash
    THEN blankEnd(s, lineCommentEnd(s, p + 2))
    ELSE p

\* a text with no value at its start: nothing but whitespace and comments,
\* or a delimiter that starts no value after them
NoValueInput(s) ==
    LET p == blankEnd(s, 1) IN
    p > Len(s) \/ s[p] \in {codeColon, codeComma, codeClosingBracket}

\* C9: on an input whose top-level parseValue consumes no value JSONRepair
\* returns "Unexpected end of json string" at len(input) and no output.
NoValueMeansUnexpectedEnd ==
    (pc # "start" /\ NoValueInput(text)) =>
        (first.err = At(UnexpectedEndError, Len(text)) /\ first.out = <<>>)

\* s without its trailing whitespace, and that whitespace
RECURSIVE trimmedLen(_)
trimmedLen(s) ==
    IF Len(s) > 0 /\ IsWhitespace(s[Len(s)])
    THEN trimmedLen(SubSeq(s, 1, Len(s) - 1)) ELSE Len(s)

\* the symbol w as a double-quoted string, followed by the whitespace that
\* followed it ('undefined' becomes null)
QuotedSymbol(w) ==
    LET n == trimmedLen(w)
        body == SubSeq(w, 1, n)
    IN  (IF body = strUndefined THEN strNull
         ELSE <<codeDoubleQuote>> \o body \o <<codeDoubleQuote>>)
        \o SubSeq(w, n + 1, Len(w))

\* C10: a run of non-delimiter characters that is not a keyword, not a
\* number and not followed by '(' is emitted, where a value is expected, as
\* a double-quoted string.
UnknownSymbolsBecomeStrings ==
    pc # "start" =>
        \A c \in SymContexts, w \in Symbols :
            text = c.pre \o w \o c.post =>
                (Succeeded(first) /\ first.out = c.pre \o QuotedSymbol(w) \o c.post)

(***************************************************************************)
(* Numbers with a leading zero                                             *)
(***************************************************************************)
\* the longest run of digits that follows the leading zero
MaxZeroDigits == 2

ZeroDigits == TextsOver({codeZero, 55}, MaxZeroDigits) \ {<<>>}

ZeroSigns == {<<>>, <<codeMinus>>}

ZeroFractions == {<<>>, <<codeDot>>, <<codeDot, 50>>}

ZeroExponents == {<<>>, <<codeLowercaseE>>, <<codeLowercaseE, 51>>,
                  <<codeUppercaseE, codeMinus>>}

\* number tokens whose integer part is a '0' followed by another digit; a
\* '.' without digits only where the input ends
ZeroTexts ==
    {s \o <<codeZero>> \o d \o f \o e :
        s \in ZeroSigns, d \in ZeroDigits,
        f \in ZeroFractions \ {<<codeDot>>}, e \in ZeroExponents}
    \cup {s \o <<codeZero>> \o d \o <<codeDot>> : s \in ZeroSigns, d \in ZeroDigits}

SpecZero == InitOn(ZeroTexts) /\ [][Next]_vars

\* the token as the input ends it, or completed with '0' where the input
\* ends behind '.', 'e', 'E' or the sign of the exponent
completedToken(w) ==
    IF IsDigit(w[Len(w)]) THEN w ELSE w \o <<codeZero>>

\* C11: a number token whose integer part is a '0' followed by another
\* digit (with or without '-', a fraction, an exponent, and also when it is
\* completed with '0' at the end of the input) is emitted as a double-quoted
\* string of its text.
LeadingZeroQuoted ==
    (pc # "start" /\ text \in ZeroTexts) =>
        /\ Succeeded(first)
        /\ first.out = <<codeDoubleQuote>> \o completedToken(text) \o <<codeDoubleQuote>>

(***************************************************************************)
(* JSONP and function-call notation                                        *)
(***************************************************************************)
MaxNameLen == 2

NameAlphabet == {99, codeLowercaseE, 95, 49}

\* callback names: letters, digits and '_', not starting with a digit
CallbackNames ==
    {w \in TextsOver(NameAlphabet, MaxNameLen) : Len(w) >= 1 /\ w[1] # 49}
        \cup {strTrue}

\* {} [] 2 "foo" null true [1,2] {"a":1}
CallbackValues ==
    {v \in { <<codeOpeningBrace, codeClosingBrace>>,
             <<codeOpeningBracket, codeClosingBracket>>,
             <<50>>,
             <<codeDoubleQuote, 102, 111, 111, codeDoubleQuote>>,
             strNull, strTrue,
             <<codeOpeningBracket, 49, codeComma, 50, codeClosingBracket>>,
             <<codeOpeningBrace, codeDoubleQuote, 97, codeDoubleQuote, codeColon,
               49, codeClosingBrace>> } : IsValidJSON(v)}

CallbackEnds == {<<codeCloseParenthesis>>, <<codeCloseParenthesis, codeSemicolon>>}

CallbackTexts ==
    {n \o <<codeOpenParenthesis>> \o v \o e :
        n \in CallbackNames, v \in CallbackValues, e \in CallbackEnds}

SpecCallback == InitOn(CallbackTexts) /\ [][Next]_vars

\* C12: for every callback name and every strictly valid JSON value v,
\* JSONRepair(name + '(' + v + ')') and JSONRepair(name + '(' + v + ');')
\* succeed and return exactly v.
CallbackStripped ==
    pc # "start" =>
        \A n \in CallbackNames, v \in CallbackValues, e \in CallbackEnds :
            text = n \o <<codeOpenParenthesis>> \o v \o e =>
                (Succeeded(first) /\ first.out = v)

(***************************************************************************)
(* Newline-delimited JSON                                                  *)
(***************************************************************************)
\* at most this many values in a sequence
MaxValues == 3

\* 1  -2  "a"  ","  {}  [3]  true
NdValues ==
    {v \in { <<49>>, <<codeMinus, 50>>,
             <<codeDoubleQuote, 97, codeDoubleQuote>>,
             <<codeDoubleQuote, codeComma, codeDoubleQuote>>,
             <<codeOpeningBrace, codeClosingBrace>>,
             <<codeOpeningBracket, 51, codeClosingBracket>>,
             strTrue } : IsValidJSON(v)}

NdSeparators == {<<codeComma>>, <<codeNewline>>}

\* sequences of k + 1 values, each but the last followed by a separator
RECURSIVE NdSequences(_)
NdSequences(k) ==
    IF k = 0 THEN NdValues
    ELSE {v \o s \o w : v \in NdValues, s \in NdSeparators, w \in NdSequences(k - 1)}

NdTexts ==
    {w \o e : w \in UNION {NdSequences(k) : k \in 1..(MaxValues - 1)},
              e \in NdSeparators \cup {<<>>}}

SpecNd == InitOn(NdTexts) /\ [][Next]_vars

\* the text without a trailing separator
ndBody(w) ==
    IF w[Len(w)] \in {codeComma, codeNewline} THEN SubSeq(w, 1, Len(w) - 1) ELSE w

\* the values of the text joined by single commas: every separating newline
\* replaced by a comma (no value of NdValues holds a newline)
ndJoined(w) ==
    [k \in 1..Len(ndBody(w)) |->
        IF w[k] = codeNewline THEN codeComma ELSE w[k]]

withoutNewlines(s) == SelectSeq(s, LAMBDA c : c # codeNewline)

\* C13: a sequence of two or more valid JSON values separated by ',' or
\* newline (mixed, with or without a trailing separator) is repaired without
\* error to '[' newline, the values in order with exactly one comma between
\* adjacent values and none behind the last, newline ']'; the newlines of the
\* input stay where they were.
NewlineDelimitedWrapped ==
    (pc # "start" /\ text \in NdTexts) =>
        /\ Succeeded(first)
        /\ Len(first.out) >= 4
        /\ SubSeq(first.out, 1, 2) = <<codeOpeningBracket, codeNewline>>
        /\ SubSeq(first.out, Len(first.out) - 1, Len(first.out))
               = <<codeNewline, codeClosingBracket>>
        /\ withoutNewlines(first.out)
               = <<codeOpeningBracket>> \o ndJoined(text) \o <<codeClosingBracket>>

(***************************************************************************)
(* Control characters inside strings                                       *)
(***************************************************************************)
MaxBodyLen == 3

CtlAlphabet == {97, codeTab, codeNewline, codeBackspace, codeBackslash}

CtlBodies == TextsOver(CtlAlphabet, MaxBodyLen)

\* a string as the whole input and as the element of an array
CtlContexts ==
    { [pre |-> <<>>, post |-> <<>>],
      [pre |-> <<codeOpeningBracket>>, post |-> <<codeClosingBracket>>] }

CtlTexts ==
    {c.pre \o <<codeDoubleQuote>> \o b \o <<codeDoubleQuote>> \o c.post :
        c \in CtlContexts, b \in CtlBodies}

SpecCtl == InitOn(CtlTexts) /\ [][Next]_vars

RawControls == {codeBackspace, codeFormFeed, codeNewline, codeReturn, codeTab}

\* some string literal of s, read from position k on, holds a raw control
\* character; inString tells whether position k lies inside a literal
RECURSIVE rawControlInString(_, _, _)
rawControlInString(s, k, inString) ==
    IF k > Len(s) THEN FALSE
    ELSE IF ~inString THEN rawControlInString(s, k + 1, s[k] = codeDoubleQuote)
    ELSE IF s[k] \in RawControls THEN TRUE
    ELSE IF s[k] = codeDoubleQuote THEN rawControlInString(s, k + 1, FALSE)
    ELSE IF s[k] = codeBackslash /\ k < Len(s) /\ s[k + 1] \notin RawControls
    THEN rawControlInString(s, k + 2, TRUE)
    ELSE rawControlInString(s, k + 1, TRUE)

escapeLetter(c) ==
    CASE c = codeBackspace -> 98 [] c = codeFormFeed -> 102
      [] c = codeNewline -> 110 [] c = codeReturn -> 114 [] c = codeTab -> 116

\* b with every raw control character replaced by its two-character escape
RECURSIVE controlsEscaped(_)
controlsEscaped(b) ==
    IF b = <<>> THEN <<>>
    ELSE (IF Head(b) \in RawControls THEN <<codeBackslash, escapeLetter(Head(b))>>
          ELSE <<Head(b)>>) \o controlsEscaped(Tail(b))

\* C14: when JSONRepair succeeds, no string literal of the output holds a
\* raw backspace, form feed, newline, carriage return or tab (also where the
\* character directly followed a backslash); a quoted string without
\* backslashes comes out with each such character as its two-character
\* escape.
NoRawControlInStrings ==
    pc # "start" =>
        /\ Succeeded(first) => ~rawControlInString(first.out, 1, FALSE)
        /\ \A c \in CtlContexts, b \in CtlBodies :
              (/\ text = c.pre \o <<codeDoubleQuote>> \o b \o <<codeDoubleQuote>> \o c.post
               /\ \A k \in 1..Len(b) : b[k] # codeBackslash)
              => (/\ Succeeded(first)
                  /\ first.out = c.pre \o <<codeDoubleQuote>> \o controlsEscaped(b)
                                     \o <<codeDoubleQuote>> \o c.post)

(***************************************************************************)
(* Quote variants                                                          *)
(***************************************************************************)
MaxQuotedLen == 2

\* a letter, a delimiter, a blank and a character above U+00FF
QuotedAlphabet == {97, codeComma, codeSpace, 300}

QuotedBodies == TextsOver(QuotedAlphabet, MaxQuotedLen)

QuoteVariants ==
    {codeDoubleQuote, codeDoubleQuoteLeft, codeDoubleQuoteRight,
     codeQuote, codeQuoteLeft, codeQuoteRight, codeGraveAccent, codeAcuteAccent}

\* the closing quotes of an opening quote: a straight quote closes itself
\* only, any other variant is closed by every double or every single variant
QuoteFamily(q) ==
    IF q \in {codeDoubleQuote, codeQuote} THEN {q}
    ELSE IF q \in {codeDoubleQuoteLeft, codeDoubleQuoteRight}
    THEN {codeDoubleQuote, codeDoubleQuoteLeft, codeDoubleQuoteRight}
    ELSE {codeQuote, codeQuoteLeft, codeQuoteRight, codeGraveAccent, codeAcuteAccent}

QuotedTexts ==
    UNION {{<<o>> \o s \o <<c>> : c \in QuoteFamily(o), s \in QuotedBodies} :
              o \in QuoteVariants}

SpecQuote == InitOn(QuotedTexts) /\ [][Next]_vars

\* C15: a body without quote, backslash and control character, surrounded
\* by an opening quote of any variant and a closing quote of its family, is
\* repaired without error to the body between two straight double quotes.
QuotesNormalised ==
    pc # "start" =>
        \A o \in QuoteVariants : \A c \in QuoteFamily(o), s \in QuotedBodies :
            text = <<o>> \o s \o <<c>> =>
                (/\ Succeeded(first)
                 /\ first.out = <<codeDoubleQuote>> \o s \o <<codeDoubleQuote>>)

\* a grave accent closed by a straight single quote around a body that holds
\* a comma has been repaired
MixedQuotesRepaired ==
    /\ pc = "repaired"
    /\ text = <<codeGraveAccent, 97, codeComma, codeQuote>>
    /\ first.out = <<codeDoubleQuote, 97, codeComma, codeDoubleQuote>>

(***************************************************************************)
(* The root call of parseValue, one step at a time: the leading            *)
(* whitespace and comments, each alternative in turn, the deferred         *)
(* trailing whitespace, then the rest of JSONRepair.                       *)
(***************************************************************************)
MaxStepLen == 3

StepAlphabet ==
    {codeDoubleQuote, codeBackslash, codeSlash, codeAsterisk, 97, 49,
     codeOpeningBrace, codeOpeningBracket, codeSpace, codeComma}

\* t.parseWhitespaceAndSkipComments() at the head of parseValue
EnterValue ==
    /\ pc = "start"
    /\ step' = [n |-> 0, t |-> NewRepairText(text),
                r |-> parseWhitespaceAndSkipComments(NewRepairText(text))]
    /\ pc' = "value"
    /\ UNCHANGED <<text, first, second>>

\* the next of parseObject, parseArray, parseString, parseNumber,
\* parseKeywords, parseUnquotedString
TryAlternative ==
    /\ pc = "value"
    /\ step.n < 6
    /\ step.n = 0 \/ (~Failed(step.r) /\ ~step.r.ok)
    /\ step' = [n |-> step.n + 1, t |-> step.r,
                r |-> parseAlternative(step.r, step.n + 1)]
    /\ UNCHANGED <<text, pc, first, second>>

\* parseValue returns: the deferred parseWhitespaceAndSkipComments
LeaveValue ==
    /\ pc = "value"
    /\ step.n >= 1
    /\ Failed(step.r) \/ step.r.ok \/ step.n = 6
    /\ step' = [step EXCEPT !.t = step.r, !.r = parseValueReturn(step.r)]
    /\ pc' = "returned"
    /\ UNCHANGED <<text, first, second>>

\* JSONRepair behind its call of parseValue
FinishRepair ==
    /\ pc = "returned"
    /\ first' = repairRoot(step.r)
    /\ pc' = "repaired"
    /\ UNCHANGED <<text, second, step>>

NextStep == EnterValue \/ TryAlternative \/ LeaveValue \/ FinishRepair

SpecStep == InitOn(TextsOver(StepAlphabet, MaxStepLen)) /\ [][NextStep]_vars

\* the steps compose to the call
StepsAreTheCall == pc = "repaired" => first = JSONRepairCall(text)

\* C16: in every state reached during a repair call the cursor satisfies
\* 0 <= i <= len(input), also behind an unterminated block comment and
\* behind a backslash that is the last character inside a string.
CursorInRange ==
    (pc \in {"value", "returned"} /\ step.r.err.kind # "panic") =>
        (step.r.i >= 0 /\ step.r.i <= Len(text))

\* C17: a subparser tried by parseValue that returns not-consumed without
\* an error leaves the cursor and the output as they were when it was
\* called; parseString at a backslash not followed by a quote leaves the
\* cursor on the backslash.
DecliningLeavesState ==
    (pc = "value" /\ step.n >= 1 /\ ~Failed(step.r) /\ ~step.r.ok) =>
        (step.r.i = step.t.i /\ step.r.output = step.t.output)

(***************************************************************************)
(* A container as the second item of an array: parseArray up to that item, *)
(* then the alternatives of its parseValue.                                *)
(***************************************************************************)
MaxNestLen == 3

NestAlphabet ==
    {codeOpeningBrace, codeOpeningBracket, codeClosingBrace, codeClosingBracket,
     codeComma, codeColon, 49, codeSpace}

\* what follows the opening bracket or brace of the nested container
NestTails == TextsOver(NestAlphabet, MaxNestLen - 1)

\* [1,  and  [",",  followed by a container
NestTexts ==
    {<<codeOpeningBracket>> \o v \o <<codeComma, o>> \o w :
        v \in {<<49>>, <<codeDoubleQuote, codeComma, codeDoubleQuote>>},
        o \in {codeOpeningBrace, codeOpeningBracket},
        w \in NestTails}

\* parseArray: the opening bracket, the first item, the comma behind it,
\* then the whitespace at the head of the second item's parseValue
EnterSecondItem ==
    /\ pc = "start"
    /\ step' = [n |-> 0, t |-> NewRepairText(text),
                r |-> parseWhitespaceAndSkipComments(
                          insertMissingComma(parseCharacter(
                              parseValue(parseWhitespaceAndSkipComments(
                                  [NewRepairText(text) EXCEPT
                                      !.output = <<codeOpeningBracket>>, !.i = 1])),
                              codeComma)))]
    /\ pc' = "value"
    /\ UNCHANGED <<text, first, second>>

NextNested == EnterSecondItem \/ TryAlternative \/ Repair

SpecNested == InitOn(NestTexts) /\ [][NextNested]_vars

IsPrefix(p, s) == Len(p) <= Len(s) /\ SubSeq(s, 1, Len(p)) = p

\* C18: when parseObject stops because no key was found, or parseArray
\* because no value was found, the only character removed from the output
\* is the comma emitted for that entry; if the entry is the container's
\* first, the output is left as it was: what was emitted before the
\* container's opening bracket, a comma included, stays.
CommaStrippingLocal ==
    (pc = "value" /\ step.n \in {1, 2} /\ step.r.ok /\ ~Failed(step.r)) =>
        IsPrefix(step.t.output, step.r.output)

(***************************************************************************)
(* InsertBeforeLastWhitespace on its own, and behind a function call       *)
(***************************************************************************)
MaxBufLen == 3

BufAlphabet == {codeSpace, codeNewline, codeTab, 97, codeComma}

\* f()<newline>1: a function call that emits nothing but the newline
\* behind it, followed by a second value
strWrapperThenValue ==
    <<102, codeOpenParenthesis, codeCloseParenthesis, codeNewline, 49>>

\* output buffers, each also taken as an input of JSONRepair
BufTexts == TextsOver(BufAlphabet, MaxBufLen) \cup {strWrapperThenValue}

\* t.output = InsertBeforeLastWhitespace(t.output, ",") with the buffer
\* text as t.output
InsertComma ==
    /\ pc = "start"
    /\ step' = [n |-> 0,
                t |-> [NewRepairText(<<>>) EXCEPT !.output = text],
                r |-> insertMissingComma([NewRepairText(<<>>) EXCEPT !.output = text])]
    /\ pc' = "inserted"
    /\ UNCHANGED <<text, first, second>>

NextInsert == InsertComma \/ Repair

SpecInsert == InitOn(BufTexts) /\ [][NextInsert]_vars

\* b with s inserted before its maximal trailing run of whitespace
insertedBeforeWhitespace(b, s) ==
    SubSeq(b, 1, trimmedLen(b)) \o s \o SubSeq(b, trimmedLen(b) + 1, Len(b))

\* C19: InsertBeforeLastWhitespace(b, s) returns, for every buffer b, b with
\* s inserted before the trailing whitespace of b (b followed by s when b is
\* empty or ends in no whitespace, s followed by b when b is all
\* whitespace), and does so at the call sites JSONRepair reaches.
InsertTotal ==
    /\ pc = "inserted" =>
          (/\ ~Failed(step.r)
           /\ step.r.output = insertedBeforeWhitespace(text, <<codeComma>>))
    /\ pc = "repaired" => Returned(first)

(***************************************************************************)
(* IsDelimiter over code points, as the scan of parseUnquotedString        *)
(* applies it                                                              *)
(***************************************************************************)
\* every code point up to this one is classified
MaxCodePoint == 383

\* the low code points, the quote variants and U+5B5D
CodePoints == (0..MaxCodePoint) \cup QuoteVariants \cup {23389}

\* for t.i < len(t.text) && !IsDelimiter(t.text[t.i]) { t.i++ } on a text
\* of one character
ScanUnquoted ==
    /\ pc = "start"
    /\ step' = [n |-> 0, t |-> NewRepairText(text),
                r |-> scanUnquoted(NewRepairText(text))]
    /\ pc' = "scanned"
    /\ UNCHANGED <<text, first, second>>

NextScan == ScanUnquoted \/ Repair

SpecScan == InitOn({<<c>> : c \in CodePoints}) /\ [][NextScan]_vars

\* , : [ ] { } ( ) newline + and the quote variants
DelimiterCodePoints ==
    {codeComma, codeColon, codeOpeningBracket, codeClosingBracket,
     codeOpeningBrace, codeClosingBrace, codeOpenParenthesis,
     codeCloseParenthesis, codeNewline, codePlus} \cup QuoteVariants

\* C20: IsDelimiter(c) holds exactly for the characters , : [ ] { } ( )
\* newline + and the quote variants; not for the sentinel, and not for a
\* code point above 0xFF whose low 8 bits equal one of them.
DelimiterExact ==
    /\ ~IsDelimiter(NoChar)
    /\ pc = "scanned" => (step.r.i = 0 <=> text[1] \in DelimiterCodePoints)

(***************************************************************************)
(* The loops of the parser, one iteration at a time.  An iteration yields  *)
(* the state at its end, with ok = TRUE when the loop goes on to test its  *)
(* condition again and ok = FALSE when it left the loop by break; a state  *)
(* that carries an error has returned from the function.                   *)
(***************************************************************************)
\* the end of an iteration of parseArray; v is the result of parseValue
parseArrayIterationEnd(v) ==
    IF Failed(v) \/ v.ok THEN v
    ELSE Return([v EXCEPT !.output = stripLastOccurrence(@, <<codeComma>>, FALSE)], FALSE)

\* the body of the for loop of parseArray
parseArrayIteration(t, initial) ==
    parseArrayIterationEnd(parseValue(
        IF initial THEN t ELSE insertMissingComma(parseCharacter(t, codeComma))))

\* the body of the for loop of parseNewlineDelimitedJSON: the loop goes on
\* while processedValue
parseNewlineDelimitedIteration(t, initial) ==
    parseValue(IF initial THEN t ELSE insertMissingComma(parseCharacter(t, codeComma)))

\* the end of an iteration of parseObject; v is the result of parseValue
parseObjectIterationValue(v, processedColon, truncatedtext) ==
    IF Failed(v) THEN v
    ELSE IF ~v.ok /\ ~(truncatedtext \/ processedColon)
    THEN Raise(v, At(ColonExpectedError, v.i))
    ELSE Return(IF v.ok THEN v ELSE Emit(v, strNull), TRUE)

\* c is the result of parseCharacter(codeColon)
parseObjectIterationColon(c) ==
    IF c.ok \/ c.i >= Len(c.text) \/ IsStartOfValue(IndexText(c.text, c.i))
    THEN parseObjectIterationValue(
             parseValue(IF c.ok THEN c
                        ELSE SetOutput(c, InsertBeforeLastWhitespace(c.output, <<codeColon>>))),
             c.ok, c.i >= Len(c.text))
    ELSE Raise(c, At(ColonExpectedError, c.i))

\* k is the result of parsing the key
parseObjectIterationKey(k) ==
    IF Failed(k) THEN k
    ELSE IF ~k.ok
    THEN IF \/ CharCode(k, k.i) = codeClosingBrace \/ CharCode(k, k.i) = codeOpeningBrace
            \/ CharCode(k, k.i) = codeClosingBracket \/ CharCode(k, k.i) = codeOpeningBracket
            \/ k.i >= Len(k.text) \/ k.i < 0
         THEN Return([k EXCEPT !.output = stripLastOccurrence(@, <<codeComma>>, FALSE)], FALSE)
         ELSE Raise(k, At(ObjectKeyExpectedError, k.i))
    ELSE parseObjectIterationColon(
             parseCharacter(parseWhitespaceAndSkipComments(k), codeColon))

\* the body of the for loop of parseObject
parseObjectIteration(t, initial) ==
    parseObjectIterationKey(
        parseObjectKey(parseString(parseObjectComma(t, initial), FALSE)))

\* the end of an iteration of parseConcatenatedString; start is
\* len(t.output) before its parseString returned parsedStr
parseConcatenatedIterationEnd(parsedStr, start) ==
    IF Failed(parsedStr) THEN parsedStr
    ELSE Return(SetOutput(parsedStr,
                    IF parsedStr.ok THEN RemoveAtIndex(parsedStr.output, start, 1)
                    ELSE InsertBeforeLastWhitespace(parsedStr.output, <<codeDoubleQuote>>)),
                TRUE)

\* x is the state after the '+', the whitespace and the removal of the end
\* quote of the string before
parseConcatenatedOperand(x) ==
    parseConcatenatedIterationEnd(parseString(x, FALSE), Len(x.output))

\* the loop body without its skip of the '+'
parseConcatenatedIterationUnskipped(t) ==
    parseConcatenatedOperand(
        [parseWhitespaceAndSkipComments(t)
            EXCEPT !.output = stripLastOccurrence(@, <<codeDoubleQuote>>, TRUE)])

\* the body of the for loop of parseConcatenatedString
parseConcatenatedIteration(t) ==
    parseConcatenatedOperand(
        [parseWhitespaceAndSkipComments([t EXCEPT !.i = @ + 1])
            EXCEPT !.output = stripLastOccurrence(@, <<codeDoubleQuote>>, TRUE)])

\* the condition of the loop named kind at state t
loopCondition(kind, t) ==
    CASE kind = "object" -> t.i < Len(t.text) /\ CharCode(t, t.i) # codeClosingBrace
      [] kind = "array" -> t.i < Len(t.text) /\ CharCode(t, t.i) # codeClosingBracket
      [] kind = "values" -> TRUE
      [] kind = "concatenated" -> CharCode(t, t.i) = codePlus

\* one iteration of the loop named kind
loopIteration(kind, t, initial) ==
    CASE kind = "object" -> parseObjectIteration(t, initial)
      [] kind = "array" -> parseArrayIteration(t, initial)
      [] kind = "values" -> parseNewlineDelimitedIteration(t, initial)
      [] kind = "concatenated" -> parseConcatenatedIteration(t)

LoopKinds == {"object", "array", "values", "concatenated"}

\* parseObject and parseArray up to their loop: the opening character is
\* emitted, then whitespace and comments
EnterContainer ==
    /\ pc = "start"
    /\ Len(text) >= 1
    /\ text[1] \in {codeOpeningBrace, codeOpeningBracket}
    /\ step' = [n |-> 0, t |-> NewRepairText(text),
                r |-> parseWhitespaceAndSkipComments(
                          [NewRepairText(text) EXCEPT !.output = <<text[1]>>, !.i = 1])]
    /\ pc' = IF text[1] = codeOpeningBrace THEN "object" ELSE "array"
    /\ UNCHANGED <<text, first, second>>

\* JSONRepair's test for a further value and its insertion of a comma; the
\* result has ok = TRUE when parseNewlineDelimitedJSON is called
furtherValuesStart(w, processedComma) ==
    IF /\ w.i < Len(w.text)
       /\ IsStartOfValue(IndexText(w.text, w.i))
       /\ EndsWithCommaOrNewline(w.output)
    THEN Return(IF processedComma THEN w
                ELSE SetOutput(w, InsertBeforeLastWhitespace(w.output, <<codeComma>>)),
                TRUE)
    ELSE Return(w, FALSE)

\* c is the result of parseCharacter(codeComma)
furtherValuesAfterComma(c) ==
    furtherValuesStart(IF c.ok THEN parseWhitespaceAndSkipComments(c) ELSE c, c.ok)

\* v is the result of the first parseValue of JSONRepair
furtherValuesFrom(v) ==
    IF Failed(v) \/ ~v.ok THEN Return(v, FALSE)
    ELSE furtherValuesAfterComma(parseCharacter(v, codeComma))

\* JSONRepair up to the loop of parseNewlineDelimitedJSON
EnterFurtherValues ==
    /\ pc = "start"
    /\ step' = [n |-> 0, t |-> NewRepairText(text),
                r |-> furtherValuesFrom(parseValue(NewRepairText(text)))]
    /\ pc' = IF ~Failed(step'.r) /\ step'.r.ok THEN "values" ELSE "exited"
    /\ UNCHANGED <<text, first, second>>

\* parseString before its test for a quote: a leading backslash is skipped
stringStart(t) ==
    IF CharCode(t, t.i) = codeBackslash THEN [t EXCEPT !.i = @ + 1] ELSE t

\* one pass of parseString over the body of a string whose opening quote is
\* at the cursor of s
scanString(s, stopAtDelimiter, skipEscapeChars) ==
    parseStringLoop([t |-> [s EXCEPT !.i = @ + 1], tmpOutput |-> <<codeDoubleQuote>>],
                    selectEndQuote(CharCode(s, s.i)), stopAtDelimiter, skipEscapeChars)

\* hasEndQuote && (t.i+1 >= len(t.text) || IsDelimiter(next non-whitespace))
stringValid(t) ==
    /\ IsQuote(CharCode(t, t.i))
    /\ \/ t.i + 1 >= Len(t.text)
       \/ IsDelimiter(nextNonWhiteSpaceCharacter(t.text, t.i + 1))

\* the first pass of parseString(false) at the start of the text
ScanString ==
    /\ pc = "start"
    /\ IsQuote(CharCode(stringStart(NewRepairText(text)), stringStart(NewRepairText(text)).i))
    /\ step' = [n |-> 0, t |-> stringStart(NewRepairText(text)),
                r |-> scanString(stringStart(NewRepairText(text)), FALSE,
                                 CharCode(NewRepairText(text), 0) = codeBackslash)]
    /\ pc' = "string"
    /\ UNCHANGED <<text, first, second>>

\* if !valid && !stopAtDelimiter { t.i = iBefore; return t.parseString(true) }
RetryString ==
    /\ pc = "string"
    /\ ~Failed(step.r.t)
    /\ ~stringValid(step.r.t)
    /\ step' = [n |-> step.n + 1, t |-> step.t,
                r |-> scanString([step.r.t EXCEPT !.i = step.t.i], TRUE, FALSE)]
    /\ pc' = "delimited"
    /\ UNCHANGED <<text, first, second>>

\* t.output = append(t.output, tmpOutput...), then the whitespace at the
\* head of parseConcatenatedString
stringEmitted(t, tmpOutput) ==
    IF tmpOutput = PanicSeq THEN Raise(t, Panic)
    ELSE parseWhitespaceAndSkipComments(Emit(t, tmpOutput))

\* the end quote is taken, or inserted before the trailing whitespace
stringClosed(r) ==
    IF Failed(r.t) THEN r.t
    ELSE IF IsQuote(CharCode(r.t, r.t.i))
    THEN stringEmitted([r.t EXCEPT !.i = @ + 1], r.tmpOutput \o <<codeDoubleQuote>>)
    ELSE stringEmitted(r.t, InsertBeforeLastWhitespace(r.tmpOutput, <<codeDoubleQuote>>))

\* parseString behind its passes, up to the loop of parseConcatenatedString
CloseString ==
    /\ pc \in {"string", "delimited"}
    /\ Failed(step.r.t) \/ stringValid(step.r.t) \/ pc = "delimited"
    /\ step' = [n |-> 0, t |-> step.r.t, r |-> stringClosed(step.r)]
    /\ pc' = IF Failed(step'.r) THEN "exited" ELSE "concatenated"
    /\ UNCHANGED <<text, first, second>>

\* an iteration of the loop pc names
IterateLoop ==
    /\ pc \in LoopKinds
    /\ loopCondition(pc, step.r)
    /\ step' = [n |-> step.n + 1, t |-> step.r,
                r |-> loopIteration(pc, step.r, step.n = 0)]
    /\ pc' = IF Failed(step'.r) \/ ~step'.r.ok THEN "exited" ELSE pc
    /\ UNCHANGED <<text, first, second>>

\* the condition of the loop is false
ExitLoop ==
    /\ pc \in LoopKinds
    /\ ~loopCondition(pc, step.r)
    /\ pc' = "exited"
    /\ UNCHANGED <<text, first, second, step>>

NextLoop ==
    \/ EnterValue \/ TryAlternative \/ LeaveValue \/ FinishRepair
    \/ EnterContainer \/ EnterFurtherValues
    \/ ScanString \/ RetryString \/ CloseString
    \/ IterateLoop \/ ExitLoop

\* at most this many characters behind the head of a text
MaxTailLen == 2

LoopAlphabet ==
    {codeDoubleQuote, codeBackslash, codePlus, codeComma, codeColon, codeSpace,
     codeNewline, 97, 49, codeOpeningBrace, codeOpeningBracket, codeClosingBracket}

\* nothing,  [1  {a:1  1<newline>  ""  : a first iteration of each loop
LoopHeads ==
    { <<>>,
      <<codeOpeningBracket, 49>>,
      <<codeOpeningBrace, 97, codeColon, 49>>,
      <<49, codeNewline>>,
      <<codeDoubleQuote, codeDoubleQuote>> }

LoopTexts == {h \o w : h \in LoopHeads, w \in TextsOver(LoopAlphabet, MaxTailLen)}

\* the call has neither returned nor panicked
Running == pc \notin {"exited", "repaired"}

\* a running call executes its next statement: WF_vars(NextLoop), with
\* ENABLED <<NextLoop>>_vars written out as Running, every running state
\* having a step that changes pc or step.n
KeepsRunning == []<>~Running \/ []<><<NextLoop>>_vars

SpecLoop == InitOn(LoopTexts) /\ [][NextLoop]_vars /\ KeepsRunning

\* an iteration that did not leave its loop ended behind the cursor it
\* started at
IterationAdvances ==
    (pc \in LoopKinds /\ step.n >= 1) => step.r.i > step.t.i

\* parseUnquotedString returns with the cursor at or behind the start of
\* the symbol
TrimKeepsStart ==
    (pc = "value" /\ step.n = 6 /\ ~Failed(step.r)) => step.r.i >= step.t.i

\* a call of parseString has rewound at most once
RetriedOnce == pc \in {"string", "delimited"} => step.n <= 1

CallEnded == pc \in {"exited", "repaired"}

====
